---------------------------- MODULE Spec2Model ----------------------------
(***************************************************************************)
(* The wav16 codec of MCM (src/Wav16.hpp) and the cyclic deque it shares   *)
(* the repository with (src/CyclicBuffer.hpp).                             *)
(*                                                                         *)
(* Range7, fastBitModel and the buffered stream reader and writer are      *)
(* included by Wav16.hpp but are not among the sources; they are modelled  *)
(* from the specification (sections 3, 4.C, 4.D, 6).                       *)
(*                                                                         *)
(* TLC's integers are 32-bit signed, so an unsigned 32-bit register is a   *)
(* pair <<hi, lo>> of 16-bit halves and all register arithmetic is done    *)
(* on the halves.                                                          *)
(***************************************************************************)
EXTENDS Integers, Sequences, FiniteSets

(***************************************************************************)
(* Bounds of the model.                                                    *)
(***************************************************************************)
\* longest input of compress, in octets
MaxLen == 5
\* largest max_count handed to compress or decompress
MaxCount == 6
\* most symbols coded in one run of the range coder alone
MaxSyms == 4
\* block size of the buffered reader and writer (4 KB in the source)
BufSize == 3

(***************************************************************************)
(* 32-bit unsigned registers as pairs of 16-bit halves.                    *)
(***************************************************************************)
W8 == 2^8
W16 == 2^16

Min(a, b) == IF a < b THEN a ELSE b

U32(hi, lo) == <<hi, lo>>
Zero32 == U32(0, 0)
\* 0xFFFFFFFF
Top32 == U32(W16 - 1, W16 - 1)

\* x + y as [c |-> carry out of bit 31, w |-> the low 32 bits]
Add32(x, y) ==
  LET lo == x[2] + y[2]
      hi == x[1] + y[1] + (lo \div W16)
  IN  [c |-> hi \div W16, w |-> U32(hi % W16, lo % W16)]

\* (x - y) mod 2^32
Sub32(x, y) ==
  LET lo == x[2] - y[2]
      br == IF lo < 0 THEN 1 ELSE 0
  IN  U32((x[1] - y[1] - br) % W16, lo % W16)

Lt32(x, y) == x[1] < y[1] \/ (x[1] = y[1] /\ x[2] < y[2])

\* (x << 8) mod 2^32
Shl8(x) == U32((x[1] % W8) * W8 + (x[2] \div W8), (x[2] % W8) * W8)

\* (x << 1) mod 2^32
Shl1(x) == U32((x[1] * 2 + (x[2] \div (W16 \div 2))) % W16, (x[2] * 2) % W16)

\* x >> 1
Shr1(x) == U32(x[1] \div 2, (x[1] % 2) * (W16 \div 2) + (x[2] \div 2))

\* x >> 31
Bit31(x) == x[1] \div (W16 \div 2)

\* x >> 24
TopOctet(x) == x[1] \div W8

\* ((x << 8) | b) mod 2^32, b an octet
Shl8Or(x, b) == U32(Shl8(x)[1], Shl8(x)[2] + b)


\* x >> n as an integer, for 2 <= n <= 16
ShrN(x, n) == x[1] * 2^(16 - n) + (x[2] \div 2^n)

\* r * p as a register, for r < 2^20 and p < 2^12 with r * p < 2^32
MulU(r, p) ==
  LET a  == r \div W16
      bp == (r % W16) * p
  IN  U32(a * p + (bp \div W16), bp % W16)

(***************************************************************************)
(* Octet streams.  A stream is [data, pos]; the buffered reader holds the  *)
(* stream it reads (data, pos) and one block read ahead of the consumer    *)
(* (buf, bpos octets of it consumed); the buffered writer holds a block    *)
(* not yet written (buf) and the stream written so far (out).              *)
(***************************************************************************)
EOF == 0 - 1

Octet == 0 .. (W8 - 1)

\* BufferedStreamReader<N> sin(in_stream)
BufferedStreamReader(data, pos) ==
  [data |-> data, pos |-> pos, buf |-> <<>>, bpos |-> 0, got |-> 0,
   asked |-> 0]

\* sin.get(): the next octet, reading one more block when the block is used
\* up; EOF when the stream has no more.  asked counts the calls and got
\* the octets delivered.
get(r) ==
  IF r.bpos < Len(r.buf)
    THEN [c |-> r.buf[r.bpos + 1],
          r |-> [r EXCEPT !.bpos = @ + 1, !.got = @ + 1, !.asked = @ + 1]]
    ELSE LET n == Min(BufSize, Len(r.data) - r.pos)
         IN  IF n <= 0
               THEN [c |-> EOF,
                     r |-> [r EXCEPT !.buf = <<>>, !.bpos = 0, !.asked = @ + 1]]
               ELSE [c |-> r.data[r.pos + 1],
                     r |-> [r EXCEPT !.buf = SubSeq(r.data, r.pos + 1, r.pos + n),
                                     !.bpos = 1,
                                     !.pos = @ + n,
                                     !.got = @ + 1,
                                     !.asked = @ + 1]]

\* sin.remain(): octets read from the stream and not consumed
remain(r) == Len(r.buf) - r.bpos

\* in_stream->tell()
tell(r) == r.pos

\* in_stream->seek(target)
seek(r, target) == [r EXCEPT !.pos = target]

\* BufferedStreamWriter<N> sout(out_stream)
BufferedStreamWriter(out) == [buf |-> <<>>, out |-> out]

\* sout.flush()
WriterFlush(w) == [buf |-> <<>>, out |-> w.out \o w.buf]

\* sout.put(c)
put(w, c) ==
  LET b == Append(w.buf, c)
  IN  IF Len(b) >= BufSize THEN WriterFlush([w EXCEPT !.buf = b])
                           ELSE [w EXCEPT !.buf = b]

RECURSIVE PutAll(_, _)
PutAll(w, cs) == IF cs = <<>> THEN w ELSE PutAll(put(w, Head(cs)), Tail(cs))

(***************************************************************************)
(* Range7: the carry-propagating binary range coder (section 4.D).         *)
(* low, range and code are 32-bit registers; carry is the carry out of     *)
(* low not yet propagated; cache is the last octet shifted out of low that *)
(* a carry can still reach (NoCache before the first) and ffs the run of   *)
(* 0xFF octets buffered after it.  cff is not state of the coder: it       *)
(* records the longest run of buffered 0xFF octets a carry went through.   *)
(***************************************************************************)
kTopBits == 24

NoCache == 0 - 1

\* Range7(): low = 0, range = 0xFFFFFFFF
Range7 ==
  [low |-> Zero32, carry |-> 0, range |-> Top32, code |-> Zero32,
   cache |-> NoCache, ffs |-> 0, cff |-> 0]

\* range < 2^24
NeedsNormalize(e) == e.range[1] < 2^(kTopBits - 16)

\* Shift the top octet out of low.  It is emitted, after the octets buffered
\* before it, once no carry can reach it: a carry adds one to the cached
\* octet and turns the buffered 0xFF octets into 0x00.
shiftLow(e, w) ==
  IF e.carry = 1 \/ TopOctet(e.low) # W8 - 1
    THEN LET first == IF e.cache = NoCache THEN <<>>
                      ELSE <<(e.cache + e.carry) % W8>>
             run   == [i \in 1 .. e.ffs |-> (W8 - 1 + e.carry) % W8]
         IN  [ent |-> [e EXCEPT !.cache = TopOctet(e.low),
                                !.ffs = 0,
                                !.low = Shl8(e.low),
                                !.carry = 0,
                                !.cff = IF e.carry = 1 /\ e.ffs > @
                                          THEN e.ffs ELSE @],
              io  |-> PutAll(w, first \o run)]
    ELSE [ent |-> [e EXCEPT !.ffs = @ + 1, !.low = Shl8(e.low)],
          io  |-> w]

\* Encoder normalization: while (range < 2^24) { range <<= 8; shiftLow(); }
RECURSIVE IncreaseRange(_, _)
IncreaseRange(e, w) ==
  IF NeedsNormalize(e)
    THEN LET s == shiftLow([e EXCEPT !.range = Shl8(e.range)], w)
         IN  IncreaseRange(s.ent, s.io)
    ELSE [ent |-> e, io |-> w]

\* mid = (range >> shift) * p
Mid(e, p, shift) == MulU(ShrN(e.range, shift), p)

\* ent.encode(stream, bit, p, shift): p is the probability of bit 0.
\* Bit 0 narrows to [low, low + mid), bit 1 to [low + mid, low + range).
encode(e, w, bit, p, shift) ==
  LET mid == Mid(e, p, shift)
      sum == Add32(e.low, mid)
      e1  == IF bit = 0
               THEN [e EXCEPT !.range = mid]
               ELSE [e EXCEPT !.low = sum.w,
                              !.carry = e.carry + sum.c,
                              !.range = Sub32(e.range, mid)]
  IN  IncreaseRange(e1, w)

\* ent.encodeBit(stream, bit): a direct bit, probability one half
encodeBit(e, w, bit) ==
  LET half == Shr1(e.range)
      sum  == Add32(e.low, half)
      e1   == IF bit = 0
                THEN [e EXCEPT !.range = half]
                ELSE [e EXCEPT !.range = half, !.low = sum.w,
                               !.carry = e.carry + sum.c]
  IN  IncreaseRange(e1, w)

\* ent.flush(stream): shift five octets out of low
RECURSIVE ShiftLowTimes(_, _, _)
ShiftLowTimes(e, w, n) ==
  IF n = 0 THEN [ent |-> e, io |-> w]
  ELSE LET s == shiftLow(e, w) IN ShiftLowTimes(s.ent, s.io, n - 1)

flush(e, w) == ShiftLowTimes(e, w, 5)

\* code = (code << 8) | (in.get() & 0xFF), n times
RECURSIVE ReadCode(_, _, _)
ReadCode(e, r, n) ==
  IF n = 0 THEN [ent |-> e, io |-> r]
  ELSE LET g == get(r)
       IN  ReadCode([e EXCEPT !.code = Shl8Or(e.code, g.c % W8)], g.r, n - 1)

\* ent.initDecoder(stream): low = 0, range = 0xFFFFFFFF, code = the first
\* four octets
initDecoder(r) == ReadCode(Range7, r, 4)

\* ent.Normalize(stream):
\* while (range < 2^24) { code = (code << 8) | get(); range <<= 8; }
RECURSIVE Normalize(_, _)
Normalize(e, r) ==
  IF NeedsNormalize(e)
    THEN LET s == ReadCode(e, r, 1)
         IN  Normalize([s.ent EXCEPT !.range = Shl8(e.range)], s.io)
    ELSE [ent |-> e, io |-> r]

\* ent.getDecodedBit(p, shift): the bit and the narrowed coder
getDecodedBit(e, p, shift) ==
  LET mid == Mid(e, p, shift)
  IN  IF Lt32(e.code, mid)
        THEN [bit |-> 0, ent |-> [e EXCEPT !.range = mid]]
        ELSE [bit |-> 1, ent |-> [e EXCEPT !.code = Sub32(e.code, mid),
                                           !.range = Sub32(e.range, mid)]]

\* ent.decodeBit(stream): a direct bit, then normalize
decodeBit(e, r) ==
  LET half == Shr1(e.range)
      one  == ~Lt32(e.code, half)
      e1   == IF one THEN [e EXCEPT !.range = half, !.code = Sub32(e.code, half)]
                     ELSE [e EXCEPT !.range = half]
      s    == Normalize(e1, r)
  IN  [bit |-> IF one THEN 1 ELSE 0, ent |-> s.ent, io |-> s.io]

(***************************************************************************)
(* fastBitModel<int, kShift, 9, 30> (section 4.C) and the model table.     *)
(* models_ is [size, p]: size entries, p the entries that were updated     *)
(* since init(); every other entry holds the initial kMaxValue / 2.        *)
(***************************************************************************)
kShift == 12
kMaxValue == 2^kShift
\* the learning exponent of StationaryModel
kLearnRate == 9

\* m.init()
ModelInit == kMaxValue \div 2

\* ModelUpdate moving all the way: a learning rate of 0
ModelUpdateWhole(p, bit) == IF bit = 0 THEN kMaxValue ELSE 0

\* m.update(bit): p moves towards kMaxValue on a 0 and towards 0 on a 1.
\* From kMaxValue / 2 the steps keep p within [2^kLearnRate - 1,
\* kMaxValue - 2^kLearnRate + 1], below any upper clamp.
ModelUpdate(p, bit) ==
  IF bit = 0 THEN p + ((kMaxValue - p) \div 2^kLearnRate)
             ELSE p - (p \div 2^kLearnRate)

\* models_[idx].getP()
getP(models, idx) ==
  IF idx \in DOMAIN models.p THEN models.p[idx] ELSE ModelInit

\* models_[idx].update(bit)
update(models, idx, bit) ==
  LET v == ModelUpdate(getP(models, idx), bit)
  IN  [models EXCEPT !.p = [i \in (DOMAIN models.p) \cup {idx} |->
                              IF i = idx THEN v ELSE models.p[i]]]

(***************************************************************************)
(* Wav16::processSample<kDecode>.  st holds ent, models, nn, nb (the range *)
(* coder, the model table, non_noise_bits_ and noise_bits_ of the          *)
(* instance), io (the stream: the writer on encode, the reader on decode), *)
(* the locals code and ctx, the value returned (ret), and the bookkeeping: *)
(* log, the coded bits <<kind, index, p, bit>>, and snaps, the table after *)
(* each call.                                                              *)
(***************************************************************************)
\* ModelledBit with the decoder's Normalize of lines 165-167 left out
ModelledBitNoNormalize(kDecode, ent, stream, code, p) ==
  IF kDecode
    THEN LET g == getDecodedBit(ent, p, kShift)
         IN  [bit |-> g.bit, ent |-> g.ent, io |-> stream, code |-> code]
    ELSE LET bit == Bit31(code)
             s   == encode(ent, stream, bit, p, kShift)
         IN  [bit |-> bit, ent |-> s.ent, io |-> s.io, code |-> Shl1(code)]

\* lines 155-161 and 165-167: code one modelled bit with probability p
ModelledBit(kDecode, ent, stream, code, p) ==
  IF kDecode
    THEN LET g == getDecodedBit(ent, p, kShift)
             n == Normalize(g.ent, stream)
         IN  [bit |-> g.bit, ent |-> n.ent, io |-> n.io, code |-> code]
    ELSE LET bit == Bit31(code)
             s   == encode(ent, stream, bit, p, kShift)
         IN  [bit |-> bit, ent |-> s.ent, io |-> s.io, code |-> Shl1(code)]

\* lines 172-176: code one noise bit directly
DirectBit(kDecode, ent, stream, code, ctx) ==
  IF kDecode
    THEN LET d == decodeBit(ent, stream)
         IN  [bit |-> d.bit, ent |-> d.ent, io |-> d.io, code |-> code,
              ctx |-> ctx + ctx + d.bit]
    ELSE LET bit == Bit31(code)
             s   == encodeBit(ent, stream, bit)
         IN  [bit |-> bit, ent |-> s.ent, io |-> s.io, code |-> Shl1(code),
              ctx |-> ctx]

\* lines 151-153: p = m.getP(); p += p == 0
PatchedP(models, idx) ==
  LET p == getP(models, idx)
  IN  p + (IF p = 0 THEN 1 ELSE 0)

\* lines 162-163, after the bit b was coded with probability p at idx:
\* m.update(bit); ctx = ctx * 2 + bit
ModelledDone(st, idx, p, b) ==
  [st EXCEPT !.ent = b.ent,
             !.io = b.io,
             !.code = b.code,
             !.models = update(st.models, idx, b.bit),
             !.ctx = st.ctx * 2 + b.bit,
             !.log = Append(@, <<"model", idx, p, b.bit>>)]

\* lines 151-167: one iteration of the loop over the modelled bits
ModelledStep(kDecode, st, context) ==
  ModelledDone(st, context + st.ctx, PatchedP(st.models, context + st.ctx),
               ModelledBit(kDecode, st.ent, st.io, st.code,
                           PatchedP(st.models, context + st.ctx)))

\* lines 150-168: for (i = 0; i < non_noise_bits_; ++i)
RECURSIVE ModelledLoop(_, _, _, _)
ModelledLoop(kDecode, st, context, i) ==
  IF i >= st.nn THEN st
  ELSE ModelledLoop(kDecode, ModelledStep(kDecode, st, context), context, i + 1)

\* lines 172-176, after the noise bit b was coded
DirectDone(st, b) ==
  [st EXCEPT !.ent = b.ent,
             !.io = b.io,
             !.code = b.code,
             !.ctx = b.ctx,
             !.log = Append(@, <<"direct", 0, 0, b.bit>>)]

\* lines 171-177: for (i = 0; i < noise_bits_; ++i)
RECURSIVE DirectLoop(_, _, _)
DirectLoop(kDecode, st, i) ==
  IF i >= st.nb THEN st
  ELSE DirectLoop(kDecode,
                  DirectDone(st, DirectBit(kDecode, st.ent, st.io, st.code,
                                           st.ctx)),
                  i + 1)

\* ctx ^ (1u << 16)
Xor16(ctx) == IF (ctx \div W16) % 2 = 1 THEN ctx - W16 ELSE ctx + W16

\* line 179: return ctx ^ (1u << 16); the table is recorded in snaps
SampleDone(st) ==
  [st EXCEPT !.ret = Xor16(st.ctx), !.snaps = Append(@, st.models)]

\* processSample without context <<= non_noise_bits_
processSampleUnshifted(kDecode, st, context, channel, c) ==
  SampleDone(
    DirectLoop(kDecode,
               ModelledLoop(kDecode,
                            [st EXCEPT !.code = IF kDecode THEN Zero32
                                                ELSE U32(c % W16, 0),
                                       !.ctx = 1],
                            context * 2 + channel,
                            0),
               0))

\* processSample<kDecode>(stream, context, channel, c): st after the call,
\* the value returned in st.ret
processSample(kDecode, st, context, channel, c) ==
  SampleDone(
    DirectLoop(kDecode,
               ModelledLoop(kDecode,
                            [st EXCEPT !.code = IF kDecode THEN Zero32
                                                ELSE U32(c % W16, 0),
                                       !.ctx = 1],
                            (context * 2 + channel) * 2^st.nn,
                            0),
               0))

(***************************************************************************)
(* The state.                                                              *)
(*   Wav16 instance: opt_var, models_, noise_bits_, non_noise_bits_, ent.  *)
(*   pc: which call is running on it ("idle" between calls).               *)
(*   in_data, max_c: the input stream of compress and its max_count.       *)
(*   cl, dl: the locals of the running compress / decompress (NoCall when  *)
(*     none runs).                                                         *)
(*   comp_out: what the last compress wrote to its output stream.          *)
(*   dec_out, dec_pos: what the last decompress wrote, and where it left   *)
(*     its input stream.                                                   *)
(*   h: bookkeeping of the calls for the properties, no state of the code: *)
(*     the coded bits and the table after each residual of the last        *)
(*     compress (encLog, encSnaps) and decompress (decLog, decSnaps) that  *)
(*     returned; whether one has returned (cdone, ddone); whether the last *)
(*     compress began after both a compress and a decompress had returned  *)
(*     (after); the flushes of the range coder in the last compress and    *)
(*     the bits coded before the last of them (encFlushes, encFlushedAt);  *)
(*     what the last decompress was asked and did (d...):                  *)
(*     max_count, frames decoded, stream position at entry, octets got     *)
(*     and asked from the reader, octets left read ahead, stream length,   *)
(*     and the samples of its last three frames, newest first.             *)
(*   rc: a run of the range coder alone.                                   *)
(*   pr: a run of the predictor alone.                                     *)
(*   dq: a CyclicDeque.                                                    *)
(*   cb: a CyclicBuffer.                                                   *)
(*   bm: one entry of the model table on the encoder and on the decoder.   *)
(***************************************************************************)
VARIABLES pc, opt_var, models_, noise_bits_, non_noise_bits_, ent,
          in_data, max_c, cl, comp_out, dl, dec_out, dec_pos, h, rc, pr, dq,
          cb, bm

instVars == <<opt_var, models_, noise_bits_, non_noise_bits_, ent>>
codecVars == <<pc, opt_var, models_, noise_bits_, non_noise_bits_, ent,
               in_data, max_c, cl, comp_out, dl, dec_out, dec_pos, h>>
unitVars == <<rc, pr, dq, cb, bm>>
vars == <<codecVars, unitVars>>

kContextBits == 2

\* octets the inputs are made of
InOctets == {0, 165}
\* values handed to setOpt
OptValues == {0, 1}
\* what surrounds the compressed stream in the input of decompress: the
\* octets before the position decompress starts at, and the octets of the
\* next stream after it
Layouts == {[pad |-> <<17>>, trail |-> <<170, 85>>]}

\* the sequences over S of length at most n
SeqsUpTo(S, n) == UNION {[1 .. k -> S] : k \in 0 .. n}

NoCall == [none |-> TRUE]

\* the bookkeeping when no call has run
NoRuns ==
  [encLog |-> <<>>, encSnaps |-> <<>>, cdone |-> FALSE, after |-> FALSE,
   encFlushes |-> 0, encFlushedAt |-> 0,
   decLog |-> <<>>, decSnaps |-> <<>>, ddone |-> FALSE, dreq |-> 0,
   dframes |-> 0, dstart |-> 0, dgot |-> 0, dasked |-> 0, dahead |-> 0,
   dlen |-> 0, dsamples |-> <<>>]

\* the bookkeeping of the last decompress, forgotten
ForgetDecompress(g) ==
  [g EXCEPT !.decLog = <<>>, !.decSnaps = <<>>, !.ddone = FALSE, !.dreq = 0,
            !.dframes = 0, !.dstart = 0, !.dgot = 0, !.dasked = 0,
            !.dahead = 0, !.dlen = 0, !.dsamples = <<>>]

\* Wav16(): opt_var(0); models_ is empty; ent is a Range7
Wav16New ==
  /\ pc = "idle"
  /\ opt_var = 0
  /\ models_ = [size |-> 0, p |-> <<>>]
  /\ noise_bits_ = 0
  /\ non_noise_bits_ = 0
  /\ ent = Range7
  /\ cl = NoCall
  /\ dl = NoCall
  /\ comp_out = <<>>
  /\ dec_out = <<>>
  /\ dec_pos = 0
  /\ h = NoRuns

\* a new instance, and the arguments of its compress calls
CodecInit ==
  /\ Wav16New
  /\ in_data \in SeqsUpTo(InOctets, MaxLen)
  /\ max_c \in 0 .. MaxCount

\* Wav16::setOpt
setOpt(var) ==
  /\ pc = "idle"
  /\ opt_var # var
  /\ opt_var' = var
  /\ UNCHANGED <<pc, h, models_, noise_bits_, non_noise_bits_, ent, in_data,
                 max_c, cl, comp_out, dl, dec_out, dec_pos, unitVars>>

\* init without the m.init() loop of lines 135-137: resize keeps the entries
initKeepsTable(models) ==
  LET nb == 3
      nn == 16 - nb
  IN  [nb |-> nb, nn |-> nn,
       models |-> [size |-> 2 * 2^(nn + kContextBits), p |-> models.p]]

\* Wav16::init: the noise split, and a table of 2 << (13 + 2) entries, all
\* of them initialized
init(models) ==
  LET nb == 3
      nn == 16 - nb
  IN  [nb |-> nb, nn |-> nn,
       models |-> [size |-> 2 * 2^(nn + kContextBits), p |-> <<>>]]

\* Predict repeating the last sample
PredictLast(last, last2) == last

\* uint16_t pred = 2 * last - last2
Predict(last, last2) == (2 * last - last2) % W16

\* static_cast<uint16_t>(static_cast<int32_t>(sample) - pred)
Residual(sample, pred) == (sample - pred) % W16

\* Reconstruct saturating at 65535
ReconstructSaturating(pred, r) == Min(pred + r, W16 - 1)

\* uint16_t sample = pred + processSample<true>(...)
Reconstruct(pred, r) == (pred + r) % W16

\* uint16_t a = c1 + c2 * 256, with c1, c2 octets or EOF
Sample(c1, c2) == (c1 + c2 * W8) % W16

\* lines 216-221 and 250-255: the history after a frame with samples a, b
ShiftHistory(l, a, b) ==
  [l EXCEPT !.last_a3 = l.last_a2, !.last_b3 = l.last_b2,
            !.last_a2 = l.last_a,  !.last_b2 = l.last_b,
            !.last_a = a,          !.last_b = b]

(***************************************************************************)
(* compress and decompress as steps on a record m of the instance fields   *)
(* (ent, models, nn, nb) and the call's locals; the actions below apply    *)
(* the steps to the state.  log and snaps are the bookkeeping of the run:  *)
(* the coded bits, and the table after each residual.                      *)
(***************************************************************************)
\* compress, lines 183-194
compressBegin(models, data) ==
  LET n == init(models)
  IN  [ent |-> Range7, models |-> n.models, nn |-> n.nn, nb |-> n.nb,
       io |-> BufferedStreamWriter(<<>>),
       sin |-> BufferedStreamReader(data, 0),
       i |-> 0, brk |-> FALSE, flushes |-> 0, flushedAt |-> 0,
       last_a |-> 0, last_b |-> 0, last_a2 |-> 0, last_b2 |-> 0,
       last_a3 |-> 0, last_b3 |-> 0,
       code |-> Zero32, ctx |-> 0, ret |-> 0,
       log |-> <<>>, snaps |-> <<>>]

\* the loop test of compress, line 195, and the break of line 210
compressLoops(m, max_count) == ~m.brk /\ m.i < max_count

\* compressCode coding channel 1 before channel 0
compressCodeBFirst(m, a, b) ==
  ShiftHistory(
    processSample(FALSE,
                  processSample(FALSE, m, 0, 1,
                                Residual(b, Predict(m.last_b, m.last_b2))),
                  0, 0,
                  Residual(a, Predict(m.last_a, m.last_a2))),
    a, b)

\* compress, lines 200-221: code the residuals of the samples a and b,
\* channel 0 then channel 1, then shift the history
compressCode(m, a, b) ==
  ShiftHistory(
    processSample(FALSE,
                  processSample(FALSE, m, 0, 0,
                                Residual(a, Predict(m.last_a, m.last_a2))),
                  0, 1,
                  Residual(b, Predict(m.last_b, m.last_b2))),
    a, b)

\* compressFrame leaving the loop on any short read, not only when the
\* first octet of the frame is EOF
compressFrameStopsShort(m) ==
  LET g1 == get(m.sin)
      g2 == get(g1.r)
      g3 == get(g2.r)
      g4 == get(g3.r)
  IN  IF g1.c = EOF \/ g2.c = EOF \/ g3.c = EOF \/ g4.c = EOF
        THEN [m EXCEPT !.sin = g4.r, !.brk = TRUE]
        ELSE compressCode([m EXCEPT !.sin = g4.r, !.i = @ + 4],
                          Sample(g1.c, g2.c), Sample(g3.c, g4.c))

\* compressFrame without the break of line 210
compressFrameCodesEof(m) ==
  LET g1 == get(m.sin)
      g2 == get(g1.r)
      g3 == get(g2.r)
      g4 == get(g3.r)
  IN  compressCode([m EXCEPT !.sin = g4.r, !.i = @ + 4],
                   Sample(g1.c, g2.c), Sample(g3.c, g4.c))

\* compress, lines 196-221: the body of the frame loop.  The LinearMixer
\* and total_error only feed what is printed at the end.
compressFrame(m) ==
  LET g1 == get(m.sin)
      g2 == get(g1.r)
      g3 == get(g2.r)
      g4 == get(g3.r)
  IN  IF g1.c = EOF
        THEN [m EXCEPT !.sin = g4.r, !.brk = TRUE]
        ELSE compressCode([m EXCEPT !.sin = g4.r, !.i = @ + 4],
                          Sample(g1.c, g2.c), Sample(g3.c, g4.c))

\* compress, lines 228-229: ent.flush(sout); sout.flush()
\* flushes counts the flushes, flushedAt is the number of bits coded before
\* the last one
compressFlushed(m, f) ==
  [m EXCEPT !.ent = f.ent, !.io = WriterFlush(f.io),
            !.flushes = @ + 1, !.flushedAt = Len(m.log)]

compressEnd(m) == compressFlushed(m, flush(m.ent, m.io))

RECURSIVE compressLoop(_, _)
compressLoop(m, max_count) ==
  IF compressLoops(m, max_count) THEN compressLoop(compressFrame(m), max_count)
  ELSE m

\* Wav16::compress on an instance whose table is models: the octets written
compress(models, data, max_count) ==
  compressEnd(compressLoop(compressBegin(models, data), max_count)).io.out

\* decompress, lines 236-240, with the reader sin after ent.initDecoder(sin)
decompressInited(models, start, max_count, d) ==
  LET n == init(models)
  IN  [ent |-> d.ent, models |-> n.models, nn |-> n.nn, nb |-> n.nb,
       io |-> d.io,
       sout |-> BufferedStreamWriter(<<>>),
       start |-> start, max_count |-> max_count,
       last_a |-> 0, last_b |-> 0, last_a2 |-> 0, last_b2 |-> 0,
       last_a3 |-> 0, last_b3 |-> 0,
       code |-> Zero32, ctx |-> 0, ret |-> 0,
       log |-> <<>>, snaps |-> <<>>]

\* decompress, lines 233-240, on the stream data at position pos
decompressBegin(models, data, pos, max_count) ==
  decompressInited(models, pos, max_count,
                   initDecoder(BufferedStreamReader(data, pos)))

\* FrameOctets with the high octet of each sample first
FrameOctetsHighFirst(a, b) == <<a \div W8, a % W8, b \div W8, b % W8>>

\* the octets of a frame in output order: a & 0xFF, a >> 8, b & 0xFF, b >> 8
FrameOctets(a, b) == <<a % W8, a \div W8, b % W8, b \div W8>>

\* EmitOctets without the max_count tests of lines 246-249
EmitWholeFrame(w, max_count, octs) ==
  [sout |-> PutAll(w, octs),
   max_count |-> IF max_count > Len(octs) THEN max_count - Len(octs) ELSE 0]

\* lines 246-249: put the octets of a frame while the budget lasts
RECURSIVE EmitOctets(_, _, _)
EmitOctets(w, max_count, octs) ==
  IF octs = <<>> THEN [sout |-> w, max_count |-> max_count]
  ELSE IF max_count > 0
         THEN EmitOctets(put(w, Head(octs)), max_count - 1, Tail(octs))
         ELSE EmitOctets(w, max_count, Tail(octs))

\* lines 246-255: write the samples a and b and shift the history
decompressEmit(s2, a, b) ==
  LET e == EmitOctets(s2.sout, s2.max_count, FrameOctets(a, b))
  IN  [ShiftHistory(s2, a, b) EXCEPT !.sout = e.sout,
                                     !.max_count = e.max_count]

\* lines 242-245, with the residuals decoded: s2 is the state after both
\* calls of processSample and ra the value the first returned
decompressSamples(m, ra, s2) ==
  decompressEmit(s2,
                 Reconstruct(Predict(m.last_a, m.last_a2), ra),
                 Reconstruct(Predict(m.last_b, m.last_b2), s2.ret))

\* decompressDecodeB decoding the second residual as channel 0
decompressDecodeBAsA(m, s1) ==
  decompressSamples(m, s1.ret, processSample(TRUE, s1, 0, 0, 0))

\* line 245: decode the residual of channel 1, s1 the state after line 244
decompressDecodeB(m, s1) ==
  decompressSamples(m, s1.ret, processSample(TRUE, s1, 0, 1, 0))

\* decompress, lines 242-255: the body of the frame loop
decompressFrame(m) == decompressDecodeB(m, processSample(TRUE, m, 0, 0, 0))

\* decompressEnd without the seek of lines 258-263
decompressEndNoSeek(m) == [m EXCEPT !.sout = WriterFlush(m.sout)]

\* decompress, lines 257-263: flush the writer and seek the input back over
\* the octets read ahead of the decoder
decompressEnd(m) ==
  [m EXCEPT !.sout = WriterFlush(m.sout),
            !.io = IF remain(m.io) > 0
                     THEN seek(m.io, tell(m.io) - remain(m.io))
                     ELSE m.io]

(***************************************************************************)
(* The actions: the calls made on one Wav16 instance.                      *)
(***************************************************************************)
\* the instance fields of m
StoreInstance(m) ==
  /\ ent' = m.ent
  /\ models_' = m.models
  /\ non_noise_bits_' = m.nn
  /\ noise_bits_' = m.nb

\* the locals of m with the instance fields as they are now
WithInstance(l) ==
  [l EXCEPT !.ent = ent, !.models = models_, !.nn = non_noise_bits_,
            !.nb = noise_bits_]

\* compress, lines 183-194
CompressBegin ==
  /\ pc = "idle"
  /\ pc' = "compress"
  /\ LET m == compressBegin(models_, in_data)
     IN  StoreInstance(m) /\ cl' = m
  /\ h' = [ForgetDecompress(h) EXCEPT !.cdone = FALSE,
                                      !.encLog = <<>>, !.encSnaps = <<>>,
                                      !.encFlushes = 0, !.encFlushedAt = 0,
                                      !.after = h.cdone /\ h.ddone]
  /\ comp_out' = <<>>
  /\ dec_out' = <<>>
  /\ dec_pos' = 0
  /\ UNCHANGED <<opt_var, in_data, max_c, dl, unitVars>>

\* compress, lines 195-222: one iteration of the frame loop
CompressFrame ==
  /\ pc = "compress"
  /\ compressLoops(cl, max_c)
  /\ LET m == compressFrame(WithInstance(cl))
     IN  StoreInstance(m) /\ cl' = m
  /\ UNCHANGED <<pc, opt_var, in_data, max_c, comp_out, dl, dec_out, dec_pos,
                 h, unitVars>>

\* compress, lines 223-229: flush the coder and the writer, and return
CompressEnd ==
  /\ pc = "compress"
  /\ ~compressLoops(cl, max_c)
  /\ LET m == compressEnd(WithInstance(cl))
     IN  /\ StoreInstance(m)
         /\ comp_out' = m.io.out
         /\ h' = [h EXCEPT !.cdone = TRUE, !.encLog = m.log,
                           !.encSnaps = m.snaps,
                           !.encFlushes = m.flushes,
                           !.encFlushedAt = m.flushedAt]
  /\ cl' = NoCall
  /\ pc' = "idle"
  /\ UNCHANGED <<opt_var, in_data, max_c, dl, dec_out, dec_pos, unitVars>>

\* decompress, lines 233-240, on a stream that holds the output of the last
\* compress at position Len(pad), followed by trail
DecompressBegin ==
  /\ pc = "idle"
  /\ h.cdone
  /\ \E max_count \in 0 .. MaxCount, lay \in Layouts :
       LET data == lay.pad \o comp_out \o lay.trail
           m    == decompressBegin(models_, data, Len(lay.pad), max_count)
       IN  /\ StoreInstance(m)
           /\ dl' = m
           /\ h' = [ForgetDecompress(h) EXCEPT !.dreq = max_count,
                                               !.after = FALSE]
  /\ pc' = "decompress"
  /\ dec_out' = <<>>
  /\ dec_pos' = 0
  /\ UNCHANGED <<opt_var, in_data, max_c, cl, comp_out, unitVars>>

\* decompress, lines 241-256: one iteration of the frame loop
DecompressFrame ==
  /\ pc = "decompress"
  /\ dl.max_count > 0
  /\ LET m == decompressFrame(WithInstance(dl))
     IN  StoreInstance(m) /\ dl' = m
  /\ h' = [h EXCEPT !.dframes = @ + 1]
  /\ UNCHANGED <<pc, opt_var, in_data, max_c, cl, comp_out, dec_out, dec_pos,
                 unitVars>>

\* decompress, lines 257-263: flush the writer, undo the readahead, return
DecompressEnd ==
  /\ pc = "decompress"
  /\ ~(dl.max_count > 0)
  /\ LET m == decompressEnd(WithInstance(dl))
     IN  /\ StoreInstance(m)
         /\ dec_out' = m.sout.out
         /\ dec_pos' = tell(m.io)
         /\ h' = [h EXCEPT !.ddone = TRUE,
                           !.decLog = m.log, !.decSnaps = m.snaps,
                           !.dstart = m.start, !.dlen = Len(m.io.data),
                           !.dgot = m.io.got, !.dasked = m.io.asked,
                           !.dahead = remain(dl.io),
                           !.dsamples = <<<<m.last_a, m.last_b>>,
                                          <<m.last_a2, m.last_b2>>,
                                          <<m.last_a3, m.last_b3>>>>]
  /\ dl' = NoCall
  /\ pc' = "idle"
  /\ UNCHANGED <<opt_var, in_data, max_c, cl, comp_out, unitVars>>

Next ==
  \/ \E var \in OptValues : setOpt(var)
  \/ CompressBegin
  \/ CompressFrame
  \/ CompressEnd
  \/ DecompressBegin
  \/ DecompressFrame
  \/ DecompressEnd

\* the units checked alone, not running
UnitsParked ==
  rc = NoCall /\ pr = NoCall /\ dq = NoCall /\ cb = NoCall /\ bm = NoCall

Init == CodecInit /\ UnitsParked

\* The codec: any sequence of setOpt, compress and decompress calls on one
\* Wav16 instance.
Spec == Init /\ [][Next]_vars

\* a call that has begun runs on: each iteration of its loop and its return
\* are taken when they can be.  This is WF_vars(CompressFrame) /\
\* WF_vars(CompressEnd) /\ WF_vars(DecompressFrame) /\ WF_vars(DecompressEnd)
\* with ENABLED <<A>>_vars written out as the guard of A: each A assigns
\* every variable, and LoopsMove says that its step changes the state.
RunsOn ==
  /\ \/ []<>(~(pc = "compress" /\ compressLoops(cl, max_c)))
     \/ []<><<CompressFrame>>_vars
  /\ \/ []<>(~(pc = "compress" /\ ~compressLoops(cl, max_c)))
     \/ []<><<CompressEnd>>_vars
  /\ \/ []<>(~(pc = "decompress" /\ dl.max_count > 0))
     \/ []<><<DecompressFrame>>_vars
  /\ \/ []<>(~(pc = "decompress" /\ ~(dl.max_count > 0)))
     \/ []<><<DecompressEnd>>_vars

\* the steps of compress and decompress calls; setOpt is left out, it writes
\* opt_var alone, which neither call reads
LiveNext ==
  \/ CompressBegin
  \/ CompressFrame
  \/ CompressEnd
  \/ DecompressBegin
  \/ DecompressFrame
  \/ DecompressEnd

\* compress and decompress calls that run to their end
SpecLive == Init /\ [][LiveNext]_vars /\ RunsOn

(***************************************************************************)
(* The range coder alone, driven as processSample drives it: a sequence of *)
(* modelled bits of any probability and direct bits is encoded, flushed,   *)
(* and decoded with the same probabilities and modes.                      *)
(*   rc: [pc, ent, w, r, syms, bits, cff]; syms are the symbols encoded,   *)
(*   bits the bits decoded so far.                                         *)
(***************************************************************************)
\* probabilities of the modelled bits
ProbSet == {1, kMaxValue \div 2, kMaxValue - 1}

\* a code register whose top bit is bit
TopBit(bit) == U32(bit * (W16 \div 2), 0)

CodecParked ==
  /\ pc = "off"
  /\ opt_var = 0
  /\ models_ = [size |-> 0, p |-> <<>>]
  /\ noise_bits_ = 0
  /\ non_noise_bits_ = 0
  /\ ent = Range7
  /\ in_data = <<>>
  /\ max_c = 0
  /\ cl = NoCall
  /\ dl = NoCall
  /\ comp_out = <<>>
  /\ dec_out = <<>>
  /\ dec_pos = 0
  /\ h = NoRuns

RcInit ==
  /\ CodecParked
  /\ pr = NoCall
  /\ dq = NoCall
  /\ cb = NoCall
  /\ bm = NoCall
  /\ rc = [pc |-> "encode", ent |-> Range7, w |-> BufferedStreamWriter(<<>>),
           r |-> NoCall, syms |-> <<>>, bits |-> <<>>, cff |-> 0]

RcEncode ==
  /\ rc.pc = "encode"
  /\ Len(rc.syms) < MaxSyms
  /\ \E bit \in {0, 1}, p \in ProbSet :
       LET b == ModelledBit(FALSE, rc.ent, rc.w, TopBit(bit), p)
       IN  rc' = [rc EXCEPT !.ent = b.ent, !.w = b.io,
                            !.syms = Append(@, [kind |-> "model", p |-> p,
                                                bit |-> b.bit])]
  /\ UNCHANGED <<codecVars, pr, dq, cb, bm>>

RcEncodeBit ==
  /\ rc.pc = "encode"
  /\ Len(rc.syms) < MaxSyms
  /\ \E bit \in {0, 1} :
       LET b == DirectBit(FALSE, rc.ent, rc.w, TopBit(bit), 1)
       IN  rc' = [rc EXCEPT !.ent = b.ent, !.w = b.io,
                            !.syms = Append(@, [kind |-> "direct", p |-> 0,
                                                bit |-> b.bit])]
  /\ UNCHANGED <<codecVars, pr, dq, cb, bm>>

RcFlush ==
  /\ rc.pc = "encode"
  /\ LET f == flush(rc.ent, rc.w)
     IN  rc' = [rc EXCEPT !.pc = "flushed", !.ent = f.ent,
                          !.w = WriterFlush(f.io), !.cff = f.ent.cff]
  /\ UNCHANGED <<codecVars, pr, dq, cb, bm>>

RcInitDecoder ==
  /\ rc.pc = "flushed"
  /\ LET d == initDecoder(BufferedStreamReader(rc.w.out, 0))
     IN  rc' = [rc EXCEPT !.pc = "decode", !.ent = d.ent, !.r = d.io]
  /\ UNCHANGED <<codecVars, pr, dq, cb, bm>>

RcDecode ==
  /\ rc.pc = "decode"
  /\ Len(rc.bits) < Len(rc.syms)
  /\ rc.syms[Len(rc.bits) + 1].kind = "model"
  /\ LET b == ModelledBit(TRUE, rc.ent, rc.r, Zero32,
                          rc.syms[Len(rc.bits) + 1].p)
     IN  rc' = [rc EXCEPT !.ent = b.ent, !.r = b.io, !.bits = Append(@, b.bit)]
  /\ UNCHANGED <<codecVars, pr, dq, cb, bm>>

RcDecodeBit ==
  /\ rc.pc = "decode"
  /\ Len(rc.bits) < Len(rc.syms)
  /\ rc.syms[Len(rc.bits) + 1].kind = "direct"
  /\ LET b == DirectBit(TRUE, rc.ent, rc.r, Zero32, 1)
     IN  rc' = [rc EXCEPT !.ent = b.ent, !.r = b.io, !.bits = Append(@, b.bit)]
  /\ UNCHANGED <<codecVars, pr, dq, cb, bm>>

RcNext ==
  \/ RcEncode
  \/ RcEncodeBit
  \/ RcFlush
  \/ RcInitDecoder
  \/ RcDecode
  \/ RcDecodeBit

SpecRC == RcInit /\ [][RcNext]_vars

(***************************************************************************)
(* compress on signals given per channel: each channel's samples are       *)
(* linear, s_n = (c + d * n) mod 2^16, or not.                             *)
(***************************************************************************)
\* frames of the longest signal
MaxFrames == 4

\* the values of c and of d
LinStarts == {0, 1, W16 - 1}
LinSteps == {0, 1, W8 - 1, W16 - 1}

\* the samples s_0 .. s_(n-1) of the linear signal of c and d
Linear(c, d, n) == [k \in 1 .. n |-> (c + d * (k - 1)) % W16]

\* a signal that is not linear
Squares(n) == [k \in 1 .. n |-> ((k - 1) * (k - 1)) % W16]

Signals(n) ==
  {Linear(c, d, n) : c \in LinStarts, d \in LinSteps} \cup {Squares(n)}

\* lines 196-199 read backwards: the octets of the frames whose samples
\* are sa[k] and sb[k], a = c1 + c2 * 256, b = c3 + c4 * 256
RECURSIVE LinearInput(_, _)
LinearInput(sa, sb) ==
  IF sa = <<>> THEN <<>>
  ELSE <<Head(sa) % W8, Head(sa) \div W8, Head(sb) % W8, Head(sb) \div W8>>
         \o LinearInput(Tail(sa), Tail(sb))

LinearInit ==
  /\ Wav16New
  /\ \E n \in 3 .. MaxFrames :
       \E sa \in Signals(n), sb \in Signals(n) : in_data = LinearInput(sa, sb)
  /\ max_c = Len(in_data)
  /\ UnitsParked

LinearNext ==
  \/ CompressBegin
  \/ CompressFrame
  \/ CompressEnd

\* compress calls on whole signals
SpecLinear == LinearInit /\ [][LinearNext]_vars

(***************************************************************************)
(* The predictor alone: the frame loops of compress and decompress with    *)
(* the residual handed over as processSample does, bit by bit from the top *)
(* of code into ctx, without the entropy coder.                            *)
(*   pr: [enc, dec, coded, ea, eb, out_a, out_b]; the histories of the     *)
(*   encoder and the decoder, and of the last frame the residuals coded    *)
(*   and the samples the decoder made.                                     *)
(***************************************************************************)
\* lines 189-191 and 238-240
Hist0 ==
  [last_a |-> 0, last_b |-> 0, last_a2 |-> 0, last_b2 |-> 0,
   last_a3 |-> 0, last_b3 |-> 0]

\* the samples of the frames
PredSamples == {0, 1, W16 \div 2, W16 - 1}

\* lines 158-159 and 174-175: the n bits taken from the top of code
RECURSIVE CodeBits(_, _)
CodeBits(code, n) ==
  IF n = 0 THEN <<>>
  ELSE <<Bit31(code)>> \o CodeBits(Shl1(code), n - 1)

\* lines 163 and 176: ctx = ctx * 2 + bit
RECURSIVE CtxOf(_, _)
CtxOf(ctx, bits) ==
  IF bits = <<>> THEN ctx
  ELSE CtxOf(ctx * 2 + Head(bits), Tail(bits))

\* what processSample<true> returns for the bits of processSample<false>(c)
Handed(c) == Xor16(CtxOf(1, CodeBits(U32(c % W16, 0), 16)))

\* compress, lines 200-221, for the samples a and b
PredEncode(l, a, b) ==
  [hist |-> ShiftHistory(l, a, b),
   ea |-> Residual(a, Predict(l.last_a, l.last_a2)),
   eb |-> Residual(b, Predict(l.last_b, l.last_b2))]

\* decompress, lines 242-255, for the values ra and rb of processSample
PredDecode(l, ra, rb) ==
  LET a == Reconstruct(Predict(l.last_a, l.last_a2), ra)
      b == Reconstruct(Predict(l.last_b, l.last_b2), rb)
  IN  [hist |-> ShiftHistory(l, a, b), a |-> a, b |-> b]

PredInit ==
  /\ CodecParked
  /\ rc = NoCall
  /\ dq = NoCall
  /\ cb = NoCall
  /\ bm = NoCall
  /\ pr = [enc |-> Hist0, dec |-> Hist0, coded |-> FALSE, ea |-> 0, eb |-> 0,
           out_a |-> 0, out_b |-> 0]

\* one frame through both loops
PredFrame ==
  /\ \E a \in PredSamples, b \in PredSamples :
       LET e == PredEncode(pr.enc, a, b)
           d == PredDecode(pr.dec, Handed(e.ea), Handed(e.eb))
       IN  pr' = [enc |-> e.hist, dec |-> d.hist, coded |-> TRUE,
                  ea |-> e.ea, eb |-> e.eb, out_a |-> d.a, out_b |-> d.b]
  /\ UNCHANGED <<codecVars, rc, dq, cb, bm>>

PredNext == PredFrame

SpecPred == PredInit /\ [][PredNext]_vars

(***************************************************************************)
(* CyclicDeque<T> on CyclicBuffer<T>.                                      *)
(*   dq: the fields pos_, mask_, alloc_size_, storage_, data_, size_ and   *)
(*   front_pos_.  storage_ is the array new T[alloc_size_], <<>> for       *)
(*   nullptr, and data_ the offset of data_ in it.  held is bookkeeping:   *)
(*   the values pushed and not yet popped, oldest first.                   *)
(***************************************************************************)
\* pos_ is not pushed beyond MaxPos
MaxPos == 12

\* size_t padding = sizeof(uint32_t)
DefaultPadding == 4

\* the sizes handed to resize and the values pushed
DequeSizes == {1, 2, 4}
DequeValues == {1, 2}

\* a & b
RECURSIVE BitAnd(_, _)
BitAnd(a, b) ==
  IF a = 0 \/ b = 0 THEN 0
  ELSE (a % 2) * (b % 2) + 2 * BitAnd(a \div 2, b \div 2)

\* CyclicBuffer() and CyclicDeque(): storage_(nullptr), mask_(0), size_(0),
\* front_pos_(0); pos_, alloc_size_ and data_ are not initialized
CyclicDeque(junk) ==
  [pos_ |-> junk, mask_ |-> 0, alloc_size_ |-> junk, storage_ |-> <<>>,
   data_ |-> junk, size_ |-> 0, front_pos_ |-> 0]

\* CyclicDeque::capacity
capacity(d) == d.mask_ + 1

\* CyclicDeque::size
size(d) == d.size_

\* CyclicDeque::full
full(d) == size(d) = capacity(d)

\* CyclicDeque::empty
empty(d) == size(d) = 0

\* CyclicBuffer::restart
restart(d) == [d EXCEPT !.pos_ = 0]

\* the assert of CyclicBuffer::resize: (new_size & (new_size - 1)) == 0
resizeAsserts(new_size) == BitAnd(new_size, new_size - 1) = 0

\* CyclicBuffer::resize
resize(d, new_size, padding) ==
  restart([d EXCEPT !.mask_ = new_size - 1,
                    !.alloc_size_ = new_size + padding * 2,
                    !.storage_ = [i \in 1 .. new_size + padding * 2 |-> 0],
                    !.data_ = padding])

\* push without the mask: data_[pos_++] = val
pushUnmasked(d, val) ==
  [d EXCEPT !.storage_ =
              [i \in DOMAIN d.storage_ |->
                 IF i = d.data_ + d.pos_ + 1 THEN val ELSE d.storage_[i]],
            !.pos_ = @ + 1]

\* CyclicBuffer::push: data_[pos_++ & mask_] = val
push(d, val) ==
  [d EXCEPT !.storage_[d.data_ + BitAnd(d.pos_, d.mask_) + 1] = val,
            !.pos_ = @ + 1]

\* CyclicDeque::push_back
push_back(d, c) == push([d EXCEPT !.size_ = @ + 1], c)

\* pop_front that leaves front_pos_ alone
pop_frontKeepsFront(d, count) == [d EXCEPT !.size_ = @ - count]

\* CyclicDeque::pop_front
pop_front(d, count) ==
  [d EXCEPT !.front_pos_ = @ + count, !.size_ = @ - count]

\* CyclicDeque::front
front(d) == d.storage_[d.data_ + BitAnd(d.front_pos_, d.mask_) + 1]

\* CyclicDeque::operator[]
DequeAt(d, offset) ==
  d.storage_[d.data_ + BitAnd(d.front_pos_ + offset, d.mask_) + 1]

\* a deque as constructed
DqInit ==
  /\ CodecParked
  /\ rc = NoCall
  /\ pr = NoCall
  /\ cb = NoCall
  /\ bm = NoCall
  /\ \E junk \in {0, MaxPos} :
       dq = [d |-> CyclicDeque(junk), held |-> <<>>]

\* resize(new_size) on the deque as constructed
DqResize ==
  /\ dq.d.storage_ = <<>>
  /\ \E new_size \in DequeSizes :
       /\ resizeAsserts(new_size)
       /\ dq' = [dq EXCEPT !.d = resize(dq.d, new_size, DefaultPadding)]
  /\ UNCHANGED <<codecVars, rc, pr, cb, bm>>

\* push_back(c) when the deque is not full
DqPushBack ==
  /\ dq.d.storage_ # <<>>
  /\ size(dq.d) < capacity(dq.d)
  /\ dq.d.pos_ < MaxPos
  /\ \E c \in DequeValues :
       dq' = [d |-> push_back(dq.d, c), held |-> Append(dq.held, c)]
  /\ UNCHANGED <<codecVars, rc, pr, cb, bm>>

\* pop_front(count) when the deque holds count elements, front_pos_ up to
\* MaxPos
DqPopFront ==
  /\ \E count \in 1 .. 2 :
       /\ size(dq.d) >= count
       /\ dq.d.front_pos_ + count <= MaxPos
       /\ dq' = [d |-> pop_front(dq.d, count),
                 held |-> SubSeq(dq.held, count + 1, Len(dq.held))]
  /\ UNCHANGED <<codecVars, rc, pr, cb, bm>>

DqNext ==
  \/ DqResize
  \/ DqPushBack
  \/ DqPopFront

\* push_back and pop_front calls on a deque resized once
SpecDeque == DqInit /\ [][DqNext]_vars

(***************************************************************************)
(* CyclicBuffer<T> alone.  A size_t below zero stands for that value plus  *)
(* 2^64 (mask_ is -1 after resize(0)); BitAnd treats it so.                *)
(*   cb: [b, state, ops, recent, last].  b holds the fields pos_, mask_,   *)
(*   alloc_size_, storage_ and data_.  state is "live", "aborted" after a  *)
(*   failed assert, or "overrun" after a write outside the allocation.     *)
(*   The rest is bookkeeping: ops, the kinds of calls since the last       *)
(*   resize; recent, the last values pushed, at most mask_ + 1 of them,    *)
(*   oldest first; last, the last call with its arguments, and for push_n  *)
(*   the buffer before it.                                                 *)
(***************************************************************************)
\* the largest count handed to push_n
MaxPushN == 4

\* the sizes handed to resize, the values pushed and filled
ResizeSizes == 0 .. 4
BufferValues == {1, 2}

\* std::min on size_t
MinU(a, b) == IF a < 0 THEN b ELSE IF b < 0 THEN a ELSE Min(a, b)

\* CyclicBuffer(): storage_(nullptr), mask_(0); the rest is not initialized
CyclicBuffer(junk) ==
  [pos_ |-> junk, mask_ |-> 0, alloc_size_ |-> junk, storage_ |-> <<>>,
   data_ |-> junk]

\* CyclicBuffer::getSize
getSize(d) == d.mask_ + 1

\* the place in storage_, from 0, of data_[offset & mask_]
Slot(d, offset) == d.data_ + BitAnd(offset, d.mask_)

\* CyclicBuffer::operator[]
BufferAt(d, offset) == d.storage_[Slot(d, offset) + 1]

\* std::copy_n(elements + from, n, storage_ + to), from and to from 0
copy_n(storage, elements, from, n, to) ==
  [i \in DOMAIN storage |->
     IF i - 1 >= to /\ i - 1 < to + n THEN elements[from + i - to]
     ELSE storage[i]]

\* lines 73-75 of push_n: where and how much the first copy writes
push_nFirst(d, count) ==
  [masked_pos |-> BitAnd(d.pos_, d.mask_),
   cur |-> MinU(1 + d.mask_ - BitAnd(d.pos_, d.mask_), count)]

\* CyclicBuffer::push_n
push_n(d, elements, count) ==
  LET f == push_nFirst(d, count)
      first == copy_n(d.storage_, elements, 0, f.cur, d.data_ + f.masked_pos)
  IN  [d EXCEPT !.storage_ = IF count - f.cur > 0
                               THEN copy_n(first, elements, f.cur,
                                           count - f.cur, d.data_)
                               ELSE first,
                !.pos_ = @ + count]

\* the spans push_n writes, <<place in storage_ from 0, length>>
push_nSpans(d, count) ==
  LET f == push_nFirst(d, count)
  IN  (IF f.cur > 0 THEN <<<<d.data_ + f.masked_pos, f.cur>>>> ELSE <<>>)
        \o (IF count - f.cur > 0 THEN <<<<d.data_, count - f.cur>>>>
            ELSE <<>>)

\* the places of storage_ a sequence of spans covers
Places(spans) ==
  UNION {spans[k][1] .. spans[k][1] + spans[k][2] - 1 : k \in DOMAIN spans}

\* CyclicBuffer::fill: std::fill(storage_, storage_ + getSize(), d)
fill(d, v) ==
  [d EXCEPT !.storage_ = [i \in DOMAIN d.storage_ |->
                            IF i - 1 < getSize(d) THEN v ELSE d.storage_[i]]]

\* the last n elements of s
LastN(s, n) ==
  IF n <= 0 THEN <<>>
  ELSE IF Len(s) <= n THEN s
  ELSE SubSeq(s, Len(s) - n + 1, Len(s))

\* the elements handed to push_n
Elements(count) == [i \in 1 .. count |-> 10 + i]

\* a buffer as constructed
CbInit ==
  /\ CodecParked
  /\ rc = NoCall
  /\ pr = NoCall
  /\ dq = NoCall
  /\ bm = NoCall
  /\ \E junk \in {0, MaxPos} :
       cb = [b |-> CyclicBuffer(junk), state |-> "live", ops |-> {},
             recent |-> <<>>, last |-> [op |-> "new"]]

\* resize(new_size): the assert fails, or the buffer is allocated anew
CbResize ==
  /\ cb.state = "live"
  /\ \E new_size \in ResizeSizes :
       IF resizeAsserts(new_size)
         THEN cb' = [b |-> resize(cb.b, new_size, DefaultPadding),
                     state |-> "live", ops |-> {}, recent |-> <<>>,
                     last |-> [op |-> "resize", n |-> new_size]]
         ELSE cb' = [cb EXCEPT !.state = "aborted",
                               !.last = [op |-> "rejected", n |-> new_size]]
  /\ UNCHANGED <<codecVars, rc, pr, dq, bm>>

\* the calls below are made on an allocated buffer, pos_ up to MaxPos
CbUsable ==
  /\ cb.state = "live"
  /\ cb.b.storage_ # <<>>
  /\ cb.b.pos_ < MaxPos

\* push(val)
CbPush ==
  /\ CbUsable
  /\ \E val \in BufferValues :
       IF Slot(cb.b, cb.b.pos_) < cb.b.alloc_size_
         THEN cb' = [b |-> push(cb.b, val), state |-> "live",
                     ops |-> cb.ops \cup {"push"},
                     recent |-> LastN(Append(cb.recent, val), getSize(cb.b)),
                     last |-> [op |-> "push"]]
         ELSE cb' = [cb EXCEPT !.state = "overrun",
                               !.last = [op |-> "push"]]
  /\ UNCHANGED <<codecVars, rc, pr, dq, bm>>

\* push_n(elements, count)
CbPushN ==
  /\ CbUsable
  /\ \E count \in 0 .. MaxPushN :
       IF Places(push_nSpans(cb.b, count)) \subseteq 0 .. cb.b.alloc_size_ - 1
         THEN cb' = [b |-> push_n(cb.b, Elements(count), count),
                     state |-> "live", ops |-> cb.ops \cup {"push_n"},
                     recent |-> LastN(cb.recent \o Elements(count),
                                      getSize(cb.b)),
                     last |-> [op |-> "push_n", count |-> count,
                               before |-> cb.b]]
         ELSE cb' = [cb EXCEPT !.state = "overrun",
                               !.last = [op |-> "push_n", count |-> count,
                                         before |-> cb.b]]
  /\ UNCHANGED <<codecVars, rc, pr, dq, bm>>

\* fill(v)
CbFill ==
  /\ CbUsable
  /\ \E v \in BufferValues :
       cb' = [b |-> fill(cb.b, v), state |-> "live",
              ops |-> cb.ops \cup {"fill"}, recent |-> <<>>,
              last |-> [op |-> "fill", v |-> v]]
  /\ UNCHANGED <<codecVars, rc, pr, dq, bm>>

CbNext ==
  \/ CbResize
  \/ CbPush
  \/ CbPushN
  \/ CbFill

\* any calls of resize, push, push_n and fill on one buffer
SpecBuffer == CbInit /\ [][CbNext]_vars

(***************************************************************************)
(* CyclicDeque with all of its calls, resize and restart at any time.      *)
(***************************************************************************)
\* CyclicDeque::push_n
deque_push_n(d, elements, count) ==
  [push_n(d, elements, count) EXCEPT !.size_ = @ + count]

\* resize(new_size) at any time; the values held are gone with the storage
DqResizeAgain ==
  /\ \E new_size \in DequeSizes :
       /\ resizeAsserts(new_size)
       /\ dq' = [d |-> resize(dq.d, new_size, DefaultPadding), held |-> <<>>]
  /\ UNCHANGED <<codecVars, rc, pr, cb, bm>>

\* restart()
DqRestart ==
  /\ dq.d.storage_ # <<>>
  /\ dq' = [dq EXCEPT !.d = restart(dq.d)]
  /\ UNCHANGED <<codecVars, rc, pr, cb, bm>>

\* push_n(elements, count) when the assert size_ + count <= capacity()
\* holds
DqPushN ==
  /\ dq.d.storage_ # <<>>
  /\ \E count \in 1 .. 2 :
       /\ size(dq.d) + count <= capacity(dq.d)
       /\ dq.d.pos_ + count <= MaxPos
       /\ dq' = [d |-> deque_push_n(dq.d, Elements(count), count),
                 held |-> dq.held \o Elements(count)]
  /\ UNCHANGED <<codecVars, rc, pr, cb, bm>>

DqAnyNext ==
  \/ DqResizeAgain
  \/ DqRestart
  \/ DqPushBack
  \/ DqPushN
  \/ DqPopFront

\* any calls of resize, restart, push_back, push_n and pop_front
SpecDequeAny == DqInit /\ [][DqAnyNext]_vars

(***************************************************************************)
(* One entry of the model table, on the encoder and on the decoder: each   *)
(* step codes one bit as lines 151-163 do, the encoder with the            *)
(* probability of its entry, the decoder with that of its own, on a stream *)
(* of that one bit, and each side updates its entry with the bit it has.   *)
(*   bm: [enc, dec, coded, bit, pe, pd, got]; the tables, and of the last  *)
(*   step the bit coded, the probabilities handed to the range coder and   *)
(*   the bit decoded.                                                      *)
(***************************************************************************)
\* the index of the entry
BmIndex == 1

\* the table after init(), not allocated in full
BmTable == [size |-> 2 * 2^(13 + kContextBits), p |-> <<>>]

\* lines 228-229: the octets written once the coded bit b is flushed
FlushedOut(b) == WriterFlush(flush(b.ent, b.io).io).out

\* lines 156-157: the bit read with probability pd by the decoder d
DecodeOne(d, pd) == ModelledBit(TRUE, d.ent, d.io, Zero32, pd).bit

\* the bit the decoder reads with probability pd from the stream of one
\* bit coded with probability pe
DecodedAs(bit, pe, pd) ==
  DecodeOne(initDecoder(BufferedStreamReader(
              FlushedOut(ModelledBit(FALSE, Range7,
                                     BufferedStreamWriter(<<>>),
                                     TopBit(bit), pe)),
              0)),
            pd)

BmInit ==
  /\ CodecParked
  /\ rc = NoCall
  /\ pr = NoCall
  /\ dq = NoCall
  /\ cb = NoCall
  /\ bm = [enc |-> BmTable, dec |-> BmTable, coded |-> FALSE, bit |-> 0,
           pe |-> 0, pd |-> 0, got |-> 0]

\* the step made of bit, the probabilities pe and pd and the bit decoded
BmStepped(bit, pe, pd, got) ==
  bm' = [enc |-> update(bm.enc, BmIndex, bit),
         dec |-> update(bm.dec, BmIndex, got),
         coded |-> TRUE, bit |-> bit, pe |-> pe, pd |-> pd, got |-> got]

BmStep ==
  /\ \E bit \in {0, 1} :
       BmStepped(bit, PatchedP(bm.enc, BmIndex), PatchedP(bm.dec, BmIndex),
                 DecodedAs(bit, PatchedP(bm.enc, BmIndex),
                           PatchedP(bm.dec, BmIndex)))
  /\ UNCHANGED <<codecVars, rc, pr, dq, cb>>

BmNext == BmStep

SpecBit == BmInit /\ [][BmNext]_vars

\* C9: every bit decoded so far is the bit that was encoded at that place,
\* and the decoder never runs past the end of the encoder's output.
RangeCoderRoundTrip ==
  rc.pc = "decode" =>
    /\ \A i \in 1 .. Len(rc.bits) : rc.bits[i] = rc.syms[i].bit
    /\ rc.r.got = rc.r.asked

\* a run whose carry went through two buffered 0xFF octets, with modelled
\* and direct bits, decoded to the end
RangeCoderCarryDecoded ==
  /\ rc.pc = "decode"
  /\ Len(rc.bits) = Len(rc.syms)
  /\ rc.cff >= 2
  /\ \E i, j \in 1 .. Len(rc.syms) :
       rc.syms[i].kind = "model" /\ rc.syms[j].kind = "direct"

(***************************************************************************)
(* Properties of the codec (specification Spec).                           *)
(***************************************************************************)
\* ceil(n / 4)
Frames(n) == (n + 3) \div 4

\* the tables m1 and m2 are equal entry by entry
TableEq(m1, m2) ==
  /\ m1.size = m2.size
  /\ \A i \in (DOMAIN m1.p) \cup (DOMAIN m2.p) : getP(m1, i) = getP(m2, i)

\* a decompress with max_count = Len(in_data) has returned, on the output of
\* a compress that ran over all of in_data
RoundTripDone ==
  /\ pc = "idle"
  /\ h.cdone
  /\ h.ddone
  /\ max_c >= Len(in_data)
  /\ h.dreq = Len(in_data)

\* C1: compress over all of S, then decompress of the output with
\* max_count = Len(S), writes exactly S.
RoundTrip == RoundTripDone => dec_out = in_data

\* a round trip of an input with a partial last frame after a full one
RoundTripPartial == RoundTripDone /\ Len(in_data) = 5 /\ in_data[5] # 0

\* the table snapshots and coded bits of the decompress that runs or ran last
DecSnaps == IF pc = "decompress" THEN dl.snaps ELSE h.decSnaps
DecLog == IF pc = "decompress" THEN dl.log ELSE h.decLog

\* C2: after k residuals the decoder's table equals the encoder's table
\* after k residuals, and both visited the same indices with the same
\* probabilities and bits.
ModelParity ==
  /\ \A k \in 1 .. Min(Len(DecSnaps), Len(h.encSnaps)) :
       TableEq(DecSnaps[k], h.encSnaps[k])
  /\ \A i \in 1 .. Min(Len(DecLog), Len(h.encLog)) : DecLog[i] = h.encLog[i]

\* the decoder has decoded four residuals the encoder coded
ModelParityReached ==
  /\ pc = "decompress"
  /\ Len(dl.snaps) = 4
  /\ Len(h.encSnaps) = 4
  /\ \E i \in DOMAIN dl.snaps[4].p : dl.snaps[4].p[i] # ModelInit

\* C3 as claimed: a compress over all of the input codes 2 * floor(L / 4)
\* residuals, none for a trailing partial frame.
ResidualsStopAtFrameBoundary ==
  (h.cdone /\ max_c >= Len(in_data)) =>
    Len(h.encSnaps) = 2 * (Len(in_data) \div 4)

\* C3 amended: a compress over all of the input codes 2 * ceil(L / 4)
\* residuals: a trailing partial frame is coded as a frame, its missing
\* octets read as EOF.
ResidualsCoverPartialFrame ==
  (h.cdone /\ max_c >= Len(in_data)) =>
    Len(h.encSnaps) = 2 * Frames(Len(in_data))

\* a compress that coded a full frame and a partial one
PartialFrameCoded ==
  /\ h.cdone
  /\ max_c >= Len(in_data)
  /\ Len(in_data) = 5
  /\ Len(h.encSnaps) = 4

\* octet j (from 0) of the frames decoded, samples newest first: a low,
\* a high, b low, b high
ExpectedOctet(samples, frames, j) ==
  LET f  == samples[frames - (j \div 4)]
      sm == IF j % 4 < 2 THEN f[1] ELSE f[2]
  IN  IF j % 2 = 0 THEN sm % W8 ELSE sm \div W8

\* C4: decompress writes exactly max_count octets, decodes
\* ceil(max_count / 4) frames, and writes their octets in the order a low,
\* a high, b low, b high, up to the budget.
DecompressWritesExactly ==
  (pc = "idle" /\ h.ddone) =>
    /\ Len(dec_out) = h.dreq
    /\ h.dframes = Frames(h.dreq)
    /\ h.dframes <= 3 =>
         \A j \in 0 .. (Len(dec_out) - 1) :
           dec_out[j + 1] = ExpectedOctet(h.dsamples, h.dframes, j)

\* a decompress whose last frame was cut by the budget
DecompressCutFrame ==
  /\ pc = "idle"
  /\ h.ddone
  /\ h.dreq = 6
  /\ Len(dec_out) = 6
  /\ h.dframes = 2

\* C5: decompress leaves the input stream right after the octets the range
\* decoder got from it; it got every octet it asked for unless the stream
\* ended.
ReadaheadUndo ==
  (pc = "idle" /\ h.ddone) =>
    /\ dec_pos = h.dstart + h.dgot
    /\ h.dgot = h.dasked \/ dec_pos = h.dlen

\* a decompress that returned with octets read ahead, after the decoder got
\* its four octets and more
ReadaheadUndone ==
  /\ pc = "idle"
  /\ h.ddone
  /\ h.dahead > 0
  /\ h.dgot = h.dasked
  /\ h.dgot > 4
  /\ dec_pos < h.dlen

\* C6: whatever was called on the instance before and whatever opt_var is,
\* compress writes what it writes on a new instance.
DeterministicEncode ==
  (pc = "idle" /\ h.cdone /\ ~h.ddone) =>
    comp_out = compress([size |-> 0, p |-> <<>>], in_data, max_c)

\* a compress that returned on an instance that had compressed and
\* decompressed before, under another opt_var than the constructor's
EncodedAgain ==
  /\ pc = "idle"
  /\ h.cdone
  /\ ~h.ddone
  /\ h.after
  /\ opt_var # 0
  /\ Len(in_data) = 5

(***************************************************************************)
(* The predictor.                                                          *)
(***************************************************************************)
\* the history fields of l
History(l) ==
  <<l.last_a, l.last_b, l.last_a2, l.last_b2, l.last_a3, l.last_b3>>

\* C7: for every history and every pair of 16-bit samples, the residual
\* coded is (sample - (2 * last1 - last2)) mod 2^16, the decoder's
\* (pred + r) mod 2^16 gives the sample back, and after the frame the
\* encoder and the decoder hold the same history.
PredictorWrap ==
  pr # NoCall /\ pr.coded =>
    /\ pr.ea = (pr.enc.last_a - (2 * pr.enc.last_a2 - pr.enc.last_a3)) % W16
    /\ pr.eb = (pr.enc.last_b - (2 * pr.enc.last_b2 - pr.enc.last_b3)) % W16
    /\ pr.out_a = pr.enc.last_a
    /\ pr.out_b = pr.enc.last_b
    /\ History(pr.dec) = History(pr.enc)

\* a frame coded with 2 * last1 - last2 negative on one channel and above
\* 65535 on the other
PredictorWrapped ==
  /\ pr # NoCall
  /\ pr.coded
  /\ 2 * pr.enc.last_a2 - pr.enc.last_a3 < 0
  /\ 2 * pr.enc.last_b2 - pr.enc.last_b3 > W16 - 1
  /\ pr.enc.last_a = W16 - 1
  /\ pr.enc.last_b = 0

\* the bits coded so far by the running compress, or by the last one
CodedLog == IF pc = "compress" THEN cl.log ELSE h.encLog

\* the j-th residual coded, j from 0: sixteen bits, the highest first
ResidualCoded(log, j) == CtxOf(0, [i \in 1 .. 16 |-> log[16 * j + i][4]])

\* the samples of channel ch in data
ChannelSamples(data, ch) ==
  [k \in 1 .. Len(data) \div 4 |->
     Sample(data[4 * (k - 1) + 2 * ch + 1], data[4 * (k - 1) + 2 * ch + 2])]

\* s_n = (c + d * n) mod 2^16 with c = s_0 and d = s_1 - s_0
IsLinear(s) ==
  \A k \in 1 .. Len(s) : s[k] = (s[1] + (s[2] - s[1]) * (k - 1)) % W16

\* C8: when the samples of a channel are linear, every residual of that
\* channel from frame index 2 on is 0.
LinearResidualsZero ==
  \A ch \in {0, 1} :
    IsLinear(ChannelSamples(in_data, ch)) =>
      \A k \in 2 .. (Len(CodedLog) \div 32) - 1 :
        ResidualCoded(CodedLog, 2 * k + ch) = 0

\* a compress of at least three frames, channel 0 linear from 65535 with
\* step 1 (it wraps to 0 at frame 1), channel 1 not linear and its residual
\* of frame 2 not 0
LinearWrapCoded ==
  /\ h.cdone
  /\ Len(h.encLog) >= 96
  /\ ChannelSamples(in_data, 0) = Linear(W16 - 1, 1, Len(in_data) \div 4)
  /\ ~IsLinear(ChannelSamples(in_data, 1))
  /\ ResidualCoded(h.encLog, 5) # 0
  /\ ResidualCoded(h.encLog, 0) = W16 - 1

(***************************************************************************)
(* CyclicDeque.                                                            *)
(***************************************************************************)
\* C10: on a resized deque, after any push_back and pop_front calls that
\* never push when full and never pop when empty, size() is the number of
\* values held, front() is the oldest value pushed and not yet popped, and
\* operator[](i) for i < size() is the i-th oldest.
DequeFifo ==
  (dq # NoCall /\ dq.d.storage_ # <<>>) =>
    /\ size(dq.d) = Len(dq.held)
    /\ ~empty(dq.d) => front(dq.d) = Head(dq.held)
    /\ \A i \in 0 .. size(dq.d) - 1 : DequeAt(dq.d, i) = dq.held[i + 1]

\* a full deque of capacity 2 whose pos_ has passed the capacity five times
\* and whose two values, not the same, lie across the end of data
DequeWrapped ==
  /\ dq # NoCall
  /\ dq.d.storage_ # <<>>
  /\ capacity(dq.d) = 2
  /\ dq.d.pos_ >= 5 * capacity(dq.d)
  /\ dq.d.front_pos_ >= 4 * capacity(dq.d)
  /\ full(dq.d)
  /\ BitAnd(dq.d.front_pos_, dq.d.mask_) = 1
  /\ dq.held[1] # dq.held[2]

(***************************************************************************)
(* CyclicBuffer.                                                           *)
(***************************************************************************)
\* n is a power of two
IsPow2(n) == \E k \in 0 .. 8 : n = 2^k

\* a buffer that is allocated and in use
BufferLive == cb # NoCall /\ cb.state = "live" /\ cb.b.storage_ # <<>>

\* C11: on a buffer resized to a power of two N, after push calls alone,
\* operator[](pos) and operator[](pos + k * N) are the same element of
\* data[0 .. N - 1] for every pos and k, and the value of the j-th push is
\* read by operator[](j) for each of the last N pushes.
BufferMasking ==
  (BufferLive /\ IsPow2(getSize(cb.b)) /\ cb.ops \subseteq {"push"}) =>
    /\ \A pos \in 0 .. MaxPos, k \in 0 .. 3 :
         /\ Slot(cb.b, pos) = Slot(cb.b, pos + k * getSize(cb.b))
         /\ Slot(cb.b, pos) - cb.b.data_ \in 0 .. getSize(cb.b) - 1
    /\ Len(cb.recent) = Min(cb.b.pos_, getSize(cb.b))
    /\ \A i \in 1 .. Len(cb.recent) :
         BufferAt(cb.b, cb.b.pos_ - Len(cb.recent) + i - 1) = cb.recent[i]

\* a buffer of size 4 pushed around more than twice, the oldest value held
\* not the newest
BufferPushedAround ==
  /\ BufferLive
  /\ getSize(cb.b) = 4
  /\ cb.ops = {"push"}
  /\ cb.b.pos_ > 2 * getSize(cb.b)
  /\ cb.recent[1] # cb.recent[4]

\* count successive push calls of the elements of s
RECURSIVE PushAll(_, _)
PushAll(d, s) ==
  IF s = <<>> THEN d ELSE PushAll(push(d, Head(s)), Tail(s))

\* C12: push_n(src, count) leaves the buffer as count push calls of
\* src[0 .. count - 1] do, pos_ advanced by count, having written at most
\* two spans and nothing outside data[0 .. N - 1], for every pos_ and count.
PushNAsPushes ==
  (cb # NoCall /\ cb.last.op = "push_n"
     /\ IsPow2(getSize(cb.last.before))) =>
    /\ cb.state = "live"
    /\ cb.b = PushAll(cb.last.before, Elements(cb.last.count))
    /\ cb.b.pos_ = cb.last.before.pos_ + cb.last.count
    /\ Len(push_nSpans(cb.last.before, cb.last.count)) <= 2
    /\ Places(push_nSpans(cb.last.before, cb.last.count))
         \subseteq cb.last.before.data_ ..
                   cb.last.before.data_ + getSize(cb.last.before) - 1

\* C13: after fill(v) on a buffer resized to n with padding pad, each of
\* the n + 2 * pad elements of the storage is v.
FillFillsStorage ==
  (cb # NoCall /\ cb.last.op = "fill" /\ IsPow2(getSize(cb.b))) =>
    /\ Len(cb.b.storage_) = getSize(cb.b) + 2 * DefaultPadding
    /\ \A i \in DOMAIN cb.b.storage_ : cb.b.storage_[i] = cb.last.v

\* C14: resize(n) rejects every n that is not a power of two, 0 included,
\* and after an accepted resize mask = n - 1, (mask + 1) & mask = 0,
\* pos = 0 and all n + 2 * pad elements are zero.
ResizeRejectsNonPow2 ==
  /\ (cb # NoCall /\ cb.last.op = "rejected") => ~IsPow2(cb.last.n)
  /\ (cb # NoCall /\ cb.last.op = "resize") =>
       /\ IsPow2(cb.last.n)
       /\ cb.b.mask_ = cb.last.n - 1
       /\ BitAnd(cb.b.mask_ + 1, cb.b.mask_) = 0
       /\ cb.b.pos_ = 0
       /\ Len(cb.b.storage_) = cb.last.n + 2 * DefaultPadding
       /\ \A i \in DOMAIN cb.b.storage_ : cb.b.storage_[i] = 0

(***************************************************************************)
(* The model table and the order of coding.                                *)
(***************************************************************************)
\* the channel of the k-th coded bit: sixteen bits a residual, channel 0
\* first
LogChannel(k) == ((k - 1) \div 16) % 2

\* ctx when the k-th bit of log is coded: 1, then the bits of the residual
\* coded before it
CtxAt(log, k) ==
  CtxOf(1, SubSeq([i \in 1 .. Len(log) |-> log[i][4]],
                  k - ((k - 1) % 16), k - 1))

\* the places of the k-th bits of log that are modelled
Modelled(log) == {k \in 1 .. Len(log) : log[k][1] = "model"}

\* the indices of models_ used by channel ch in log
ModelIndices(log, ch) ==
  {log[k][2] : k \in {j \in Modelled(log) : LogChannel(j) = ch}}

\* C15: on encode and on decode, every index used to access models_ is
\* below models_.size(), ctx is in [1, 2^13 - 1] at every lookup, and the
\* indices of channel 0 and of channel 1 are disjoint.
TableBounds ==
  \A log \in {CodedLog, DecLog} :
    /\ \A k \in Modelled(log) :
         /\ log[k][2] < models_.size
         /\ CtxAt(log, k) \in 1 .. 2^13 - 1
    /\ ModelIndices(log, 0) \cap ModelIndices(log, 1) = {}

\* a decompress has returned that used an index of channel 0 and, for
\* channel 1, one of the last sixteen of the table's used half
TableTopUsed ==
  /\ pc = "idle"
  /\ h.ddone
  /\ ModelIndices(h.decLog, 0) # {}
  /\ \E x \in ModelIndices(h.decLog, 1) : x >= 2 * 2^13 - 16
  /\ \E x \in ModelIndices(h.encLog, 1) : x >= 2 * 2^13 - 16

(***************************************************************************)
(* The probabilities handed to the range coder.                            *)
(***************************************************************************)
\* C16: after any sequence of update(bit) calls from kMaxValue / 2, the
\* probability handed to the range coder, patched by p += (p == 0), is in
\* [1, kMaxValue - 1] and is the same on the encoder and on the decoder,
\* which reads the bit that was coded.
ProbabilityInRange ==
  (bm # NoCall /\ bm.coded) =>
    /\ bm.pe \in 1 .. kMaxValue - 1
    /\ bm.pd = bm.pe
    /\ bm.got = bm.bit

\* the probability has gone up from kMaxValue / 2 as far as it goes and
\* come down by one step
ProbabilityTurned ==
  /\ bm # NoCall
  /\ bm.coded
  /\ bm.bit = 1
  /\ bm.pe = kMaxValue - 2^kLearnRate + 1
  /\ getP(bm.dec, BmIndex) < bm.pe

\* octet i (from 1) of data as sin.get() returns it
InputOctet(data, i) == IF i <= Len(data) THEN data[i] ELSE EOF

\* the sample of channel ch in frame k (from 0) of data, 0 before frame 0
FrameSample(data, k, ch) ==
  IF k < 0 THEN 0
  ELSE Sample(InputOctet(data, 4 * k + 2 * ch + 1),
              InputOctet(data, 4 * k + 2 * ch + 2))

\* the residual of channel ch in frame k with the history of the frames
\* before k
ExpectedResidual(data, k, ch) ==
  (FrameSample(data, k, ch)
     - (2 * FrameSample(data, k - 1, ch) - FrameSample(data, k - 2, ch)))
    % W16

\* bit i (from 1, the highest) of the 16-bit value r
BitOf(r, i) == (r \div 2^(16 - i)) % 2

\* C17: in every compress the bits are coded frame by frame, channel 0 then
\* channel 1, each residual as 13 modelled bits and then 3 direct bits,
\* highest bit first; the history is that of the frames coded in full; the
\* range coder is not flushed while the loop runs and is flushed once, after
\* the last coded bit, when compress returns.
EncodeOrder ==
  /\ Len(CodedLog) % 32 = 0
  /\ \A j \in 0 .. (Len(CodedLog) \div 16) - 1 :
       \A i \in 1 .. 16 :
         /\ CodedLog[16 * j + i][1] = (IF i <= 13 THEN "model" ELSE "direct")
         /\ CodedLog[16 * j + i][4]
              = BitOf(ExpectedResidual(in_data, j \div 2, j % 2), i)
         /\ i <= 13 => CodedLog[16 * j + i][2] \div 2^13 = j % 2
  /\ pc = "compress" =>
       /\ cl.flushes = 0
       /\ \A n \in 1 .. 3 :
            /\ <<cl.last_a, cl.last_a2, cl.last_a3>>[n]
                 = FrameSample(in_data, (Len(cl.log) \div 32) - n, 0)
            /\ <<cl.last_b, cl.last_b2, cl.last_b3>>[n]
                 = FrameSample(in_data, (Len(cl.log) \div 32) - n, 1)
  /\ (pc # "compress" /\ h.cdone) =>
       /\ h.encFlushes = 1
       /\ h.encFlushedAt = Len(h.encLog)

\* compress has returned at max_count after one frame with input left, and
\* the two residuals of the frame differ
EncodedInOrder ==
  /\ h.cdone
  /\ Len(in_data) = 5
  /\ max_c = 4
  /\ Len(h.encLog) = 32
  /\ ExpectedResidual(in_data, 0, 0) # ExpectedResidual(in_data, 0, 1)

(***************************************************************************)
(* CyclicDeque with resize and restart.                                    *)
(***************************************************************************)
\* C18: after any resize, restart, push_back, push_n and pop_front calls
\* whose asserts hold, size = pos - front_pos and 0 <= size <= capacity(),
\* and full() and empty() say so.
DequeBookkeeping ==
  (dq # NoCall /\ dq.d.storage_ # <<>>) =>
    /\ size(dq.d) = dq.d.pos_ - dq.d.front_pos_
    /\ size(dq.d) >= 0
    /\ size(dq.d) <= capacity(dq.d)
    /\ empty(dq.d) <=> dq.d.pos_ = dq.d.front_pos_
    /\ full(dq.d) <=> dq.d.pos_ - dq.d.front_pos_ = capacity(dq.d)

(***************************************************************************)
(* Termination.                                                            *)
(***************************************************************************)
\* the frames compress has coded, never more than ceil(max_count / 4) and
\* none whose first octet read is EOF; all of those when it has returned
FramesCoded ==
  /\ Len(CodedLog) \div 32 <= Min(Frames(max_c), Frames(Len(in_data)))
  /\ (pc # "compress" /\ h.cdone) =>
       Len(h.encLog) \div 32 = Min(Frames(max_c), Frames(Len(in_data)))

\* the iterations decompress has made, ceil(max_count / 4) when it has
\* returned
FramesDecoded ==
  /\ h.dframes <= Frames(h.dreq)
  /\ (pc # "decompress" /\ h.ddone) => h.dframes = Frames(h.dreq)

\* each iteration that can be made moves its loop on: compress grows i or
\* breaks, decompress lowers max_count
LoopsMove ==
  /\ (pc = "compress" /\ compressLoops(cl, max_c)) =>
        LET m == compressFrame(WithInstance(cl))
        IN  m.brk \/ m.i > cl.i
  /\ (pc = "decompress" /\ dl.max_count > 0) =>
        decompressFrame(WithInstance(dl)).max_count < dl.max_count

\* C19: every compress reaches its flush and returns, having coded at most
\* ceil(max_count / 4) frames and no frame whose first octet is EOF, and
\* every decompress leaves its loop after ceil(max_count / 4) iterations;
\* no iteration leaves its loop where it was.
Termination ==
  /\ [](FramesCoded /\ FramesDecoded /\ LoopsMove)
  /\ (pc = "compress") ~> (pc = "idle" /\ h.cdone /\ h.encFlushes = 1)
  /\ (pc = "decompress") ~> (pc = "idle" /\ h.ddone)

\* both calls have returned, compress at EOF before max_count and
\* decompress after cutting its second frame
TerminatedBoth ==
  /\ pc = "idle"
  /\ h.cdone
  /\ h.ddone
  /\ Len(in_data) = 5
  /\ max_c = 6
  /\ Len(h.encLog) = 64
  /\ h.dreq = 5
  /\ h.dframes = 2

=============================================================================
